---- MODULE Spec2Model ----
(***************************************************************************)
(* A model of src/src/main.rs of simple-rust-calculator: the scanner       *)
(* (TokenizerImpl::next_token, tokenize_all), the recursive-descent parser *)
(* (parse and its four nested functions), the tree-walking evaluator       *)
(* (evaluate_expression, evaluate) and the drivers (interpret,             *)
(* interpret_with_environment, interpret_expressions).                     *)
(*                                                                         *)
(* Text is a sequence of one-character strings.  A panic of the Rust code  *)
(* is a "fatal" field other than "none" in the value an operator returns.  *)
(***************************************************************************)
EXTENDS Integers, Sequences, FiniteSets, TLC

VARIABLES
    overflow_checks,  \* build profile: TRUE = arithmetic overflow panics, FALSE = it wraps
    inputs,           \* interpret_expressions: the Vec<&str> of inputs
    input_index,      \* interpret_expressions: 1-based position of the input in progress
    pc,               \* position of the driver in the pipeline
    input,            \* TokenizerImpl.input of the scanner under direct use
    current_index,    \* TokenizerImpl.current_index (0-based, counts chars)
    token,            \* the Token the last next_token call returned
    calls,            \* number of direct next_token calls made so far
    tokens,           \* the Vec<Token> tokenize_all returned
    ast,              \* the AstNode parse returned / the node handed to the evaluator
    parse_iters,      \* history: '=' loop iterations of each parse_expression activation
    environment,      \* the HashMap<String, i32>
    result,           \* the i32 last returned by the evaluator
    fatal,            \* "none", or the kind of panic that ended the run
    env_before,       \* history: environment when the evaluation in progress/last began
    writes            \* history: (name, value) of every completed environment.insert, in order

vars == <<overflow_checks, inputs, input_index, pc, input, current_index, token, calls,
          tokens, ast, parse_iters, environment, result, fatal, env_before, writes>>

(***************************************************************************)
(* i32                                                                     *)
(***************************************************************************)
I32Max == 2147483647
I32Min == -I32Max - 1

\* Rust's integer division truncates toward zero (TLA+'s \div floors).
\* Not applied to (I32Min, -1), whose quotient is no i32.
TruncDivPos(a, b) ==
    IF a < 0 /\ a % b # 0 THEN (a \div b) + 1 ELSE a \div b
TruncDiv(a, b) ==
    IF b > 0 THEN TruncDivPos(a, b)
    ELSE IF b = I32Min THEN (IF a = I32Min THEN 1 ELSE 0)
    ELSE -TruncDivPos(a, -b)

\* p * q modulo 2^16 for p, q in 0..65535, without leaving the 32-bit range.
MulMod16(p, q) == ((((p \div 256) * q) % 256) * 256 + (p % 256) * q) % 65536

\* Two's-complement wrapping product of two i32 (i32::wrapping_mul), by 16-bit limbs.
WrappingMul(a, b) ==
    LET al == a % 65536
        ah == (a \div 65536) % 65536
        bl == b % 65536
        bh == (b \div 65536) % 65536
        x  == (al \div 256) * bl
        z  == (x % 256) * 256 + (al % 256) * bl
        lo == z % 65536
        hi == (MulMod16(ah, bl) + MulMod16(al, bh) + (x \div 256) + (z \div 65536)) % 65536
    IN  IF hi >= 32768 THEN (hi - 65536) * 65536 + lo ELSE hi * 65536 + lo

AddOverflows(a, b) == \/ (b > 0 /\ a > I32Max - b)
                      \/ (b < 0 /\ a < I32Min - b)
SubOverflows(a, b) == \/ (b < 0 /\ a > I32Max + b)
                      \/ (b > 0 /\ a < I32Min + b)
MulOverflows(a, b) ==
    /\ a # 0
    /\ b # 0
    /\ \/ (a = -1 /\ b = I32Min)
       \/ (b = -1 /\ a = I32Min)
       \/ /\ a # -1
          /\ b # -1
          /\ IF (a < 0) = (b < 0)
             THEN IF a > 0 THEN a > I32Max \div b ELSE a < TruncDiv(I32Max, b)
             ELSE IF a > 0 THEN b < TruncDiv(I32Min, a) ELSE a < TruncDiv(I32Min, b)

WrappingAdd(a, b) ==
    IF ~AddOverflows(a, b) THEN a + b
    ELSE IF b > 0 THEN (a - I32Max - 1) + (b - I32Max - 1)
    ELSE (a + I32Max + 1) + (b + I32Max + 1)

WrappingSub(a, b) ==
    IF ~SubOverflows(a, b) THEN a - b
    ELSE IF b < 0 THEN (a - I32Max - 1) - (b + I32Max + 1)
    ELSE (a + I32Max + 1) - (b - I32Max - 1)

\* The outcome of a binary operator of the evaluator on two i32 values.
Value(v) == [value |-> v, fatal |-> "none"]
Panic(kind) == [value |-> 0, fatal |-> kind]

I32Add(a, b, checks) ==
    IF AddOverflows(a, b) /\ checks THEN Panic("ArithmeticOverflow") ELSE Value(WrappingAdd(a, b))
I32Sub(a, b, checks) ==
    IF SubOverflows(a, b) /\ checks THEN Panic("ArithmeticOverflow") ELSE Value(WrappingSub(a, b))
I32Mul(a, b, checks) ==
    IF MulOverflows(a, b) /\ checks THEN Panic("ArithmeticOverflow") ELSE Value(WrappingMul(a, b))
\* Mutant of I32Div: the quotient is rounded down instead of toward zero.
I32DivFlooring(a, b) ==
    IF b = 0 THEN Panic("DivisionByZero")
    ELSE IF a = I32Min /\ b = -1 THEN Panic("ArithmeticOverflow")
    ELSE IF b > 0 THEN Value(a \div b)
    ELSE Value(TruncDiv(a, b))

I32Div(a, b) ==
    IF b = 0 THEN Panic("DivisionByZero")
    ELSE IF a = I32Min /\ b = -1 THEN Panic("ArithmeticOverflow")
    ELSE Value(TruncDiv(a, b))

(***************************************************************************)
(* Characters.  NonAsciiLetter stands for one alphabetic char outside      *)
(* a..z, A..Z (such as U+00E9): char::is_alphabetic accepts it, the match  *)
(* arm that starts an identifier does not.                                 *)
(***************************************************************************)
AsciiLetters == {"a", "b", "c", "d", "e", "f", "g", "h", "i", "j", "k", "l", "m",
                 "n", "o", "p", "q", "r", "s", "t", "u", "v", "w", "x", "y", "z",
                 "A", "B", "C", "D", "E", "F", "G", "H", "I", "J", "K", "L", "M",
                 "N", "O", "P", "Q", "R", "S", "T", "U", "V", "W", "X", "Y", "Z"}
NonAsciiLetter == "U+00E9"
DigitChars == <<"0", "1", "2", "3", "4", "5", "6", "7", "8", "9">>
Digits == {DigitChars[i] : i \in 1..10}
Whitespace == {" ", "\r", "\n", "\t"}
OperatorChars == {"+", "-", "*", "/", "="}

is_alphabetic(c) == c \in AsciiLetters \cup {NonAsciiLetter}
is_digit(c) == c \in Digits
DigitValue(c) == (CHOOSE i \in 1..10 : DigitChars[i] = c) - 1

(***************************************************************************)
(* enum Token                                                              *)
(***************************************************************************)
IntToken(v) == [type |-> "Int", value |-> v]
OpenParen == [type |-> "OpenParen"]
ClosedParen == [type |-> "ClosedParen"]
Operator(op) == [type |-> "Operator", op |-> op]
IdentifierToken(name) == [type |-> "Identifier", name |-> name]
InputEnd == [type |-> "InputEnd"]
NoToken == [type |-> "none"]   \* no token was returned (the call panicked, or none was made)

(***************************************************************************)
(* TokenizerImpl::next_token                                               *)
(***************************************************************************)
\* self.input.chars().nth(i): 0-based, None at and past the end
HasChar(text, i) == i < Len(text)
CharAt(text, i) == text[i + 1]

\* The two `while let Some(c) = ...nth(current_index)` loops: the index after the
\* maximal run of alphabetic chars (letters = TRUE) or of decimal digits.
RECURSIVE RunEnd(_, _, _)
RunEnd(text, i, letters) ==
    IF HasChar(text, i) /\ (IF letters THEN is_alphabetic(CharAt(text, i)) ELSE is_digit(CharAt(text, i)))
    THEN RunEnd(text, i + 1, letters)
    ELSE i

\* str::parse::<i32> on a non-empty run of decimal digits: the value, or -1 for
\* Err(PosOverflow) (the accumulator is checked before each multiply-add).
RECURSIVE ParseI32From(_, _)
ParseI32Digit(digits, acc, d) ==
    IF acc > (I32Max - d) \div 10 THEN -1 ELSE ParseI32From(Tail(digits), acc * 10 + d)
ParseI32From(digits, acc) ==
    IF digits = <<>> THEN acc ELSE ParseI32Digit(digits, acc, DigitValue(Head(digits)))
ParseI32(digits) == ParseI32From(digits, 0)

Scanned(t, i) == [token |-> t, current_index |-> i, fatal |-> "none"]
ScanPanic(kind, i) == [token |-> NoToken, current_index |-> i, fatal |-> kind]

\* the arm Some('a'..='z') | Some('A'..='Z'): the identifier text[i .. e)
scan_identifier(text, i, e) == Scanned(IdentifierToken(SubSeq(text, i + 1, e)), e)

\* the arm Some('0'..='9'): number.parse::<i32>().unwrap() on text[i .. e)
scan_number_value(n, e) == IF n < 0 THEN ScanPanic("IntegerOverflow", e) ELSE Scanned(IntToken(n), e)
scan_number(text, i, e) == scan_number_value(ParseI32(SubSeq(text, i + 1, e)), e)

\* Mutant of scan_end: the arm None moves the cursor like every other arm.
scan_end_advancing(text, i) == Scanned(InputEnd, i + 1)

\* the arm None: the cursor is not moved
scan_end(text, i) == Scanned(InputEnd, i)

RECURSIVE next_token(_, _)
scan_char(text, i, c) ==
    CASE c = "(" -> Scanned(OpenParen, i + 1)
      [] c = ")" -> Scanned(ClosedParen, i + 1)
      [] c \in OperatorChars -> Scanned(Operator(c), i + 1)
      [] c \in AsciiLetters -> scan_identifier(text, i, RunEnd(text, i, TRUE))
      [] c \in Digits -> scan_number(text, i, RunEnd(text, i, FALSE))
      [] c \in Whitespace -> next_token(text, i + 1)
      [] OTHER -> ScanPanic("InvalidCharacter", i)

next_token(text, i) ==
    IF ~HasChar(text, i) THEN scan_end(text, i) ELSE scan_char(text, i, CharAt(text, i))

(***************************************************************************)
(* tokenize_all: a fresh tokenizer, next_token until InputEnd was pushed   *)
(***************************************************************************)
RECURSIVE tokenize_loop(_, _, _)
\* the loop body once next_token returned r
tokenize_push(text, acc, r) ==
    IF r.fatal # "none" THEN [tokens |-> acc, fatal |-> r.fatal]
    ELSE IF r.token = InputEnd THEN [tokens |-> Append(acc, r.token), fatal |-> "none"]
    ELSE tokenize_loop(text, r.current_index, Append(acc, r.token))
tokenize_loop(text, i, acc) == tokenize_push(text, acc, next_token(text, i))
tokenize_all(text) == tokenize_loop(text, 0, <<>>)

(***************************************************************************)
(* enum AstNode                                                            *)
(***************************************************************************)
Add(l, r) == [kind |-> "Add", left |-> l, right |-> r]
Subtract(l, r) == [kind |-> "Subtract", left |-> l, right |-> r]
Multiply(l, r) == [kind |-> "Multiply", left |-> l, right |-> r]
Divide(l, r) == [kind |-> "Divide", left |-> l, right |-> r]
Assign(l, r) == [kind |-> "Assign", left |-> l, right |-> r]
Identifier(name) == [kind |-> "Identifier", name |-> name]
IntLiteral(v) == [kind |-> "IntLiteral", value |-> v]
NoNode == [kind |-> "none"]   \* no tree was built (the call panicked, or none was made)

(***************************************************************************)
(* parse: the four nested functions.  A result carries the node, the       *)
(* cursor (current_index, 0-based) , the panic if any, and, as history,    *)
(* iters: the number of '=' arm iterations of every parse_expression       *)
(* activation, outermost first.                                            *)
(***************************************************************************)
Parsed(n, i, it) == [node |-> n, index |-> i, fatal |-> "none", iters |-> it]
ParsePanic(kind, i) == [node |-> NoNode, index |-> i, fatal |-> kind, iters |-> <<>>]

\* tokens[*current_index]: indexing a Vec past its end panics
InBounds(toks, i) == i < Len(toks)
TokenAt(toks, i) == toks[i + 1]

RECURSIVE parse_expression(_, _), expression_loop(_, _, _, _, _),
          parse_additive(_, _), additive_loop(_, _, _, _),
          parse_term(_, _), term_loop(_, _, _, _), parse_factor(_, _)

\* the arm Token::OpenParen once the inner parse_expression returned e
factor_close(toks, e) ==
    IF e.fatal # "none" THEN e
    ELSE IF ~InBounds(toks, e.index) THEN ParsePanic("IndexOutOfBounds", e.index)
    ELSE IF TokenAt(toks, e.index) = ClosedParen THEN Parsed(e.node, e.index + 1, e.iters)
    ELSE ParsePanic("UnexpectedToken", e.index)

factor_token(toks, i, t) ==
    CASE t.type = "Int" -> Parsed(IntLiteral(t.value), i + 1, <<>>)
      [] t.type = "OpenParen" -> factor_close(toks, parse_expression(toks, i + 1))
      [] t.type = "Identifier" -> Parsed(Identifier(t.name), i + 1, <<>>)
      [] OTHER -> ParsePanic("UnexpectedToken", i)

parse_factor(toks, i) ==
    IF ~InBounds(toks, i) THEN ParsePanic("IndexOutOfBounds", i)
    ELSE factor_token(toks, i, TokenAt(toks, i))

\* an arm of the loop of parse_term once parse_factor returned the right operand f
term_fold(toks, node, op, it, f) ==
    IF f.fatal # "none" THEN f
    ELSE term_loop(toks,
                   IF op = Operator("*") THEN Multiply(node, f.node) ELSE Divide(node, f.node),
                   f.index, it \o f.iters)

\* Mutant of term_loop: the right operand is a whole term (right recursion).
term_loop_right_recursive(toks, node, i, it) ==
    IF ~InBounds(toks, i) THEN ParsePanic("IndexOutOfBounds", i)
    ELSE IF TokenAt(toks, i) \in {Operator("*"), Operator("/")}
    THEN term_fold(toks, node, TokenAt(toks, i), it, parse_term(toks, i + 1))
    ELSE Parsed(node, i, it)

term_loop(toks, node, i, it) ==
    IF ~InBounds(toks, i) THEN ParsePanic("IndexOutOfBounds", i)
    ELSE IF TokenAt(toks, i) \in {Operator("*"), Operator("/")}
    THEN term_fold(toks, node, TokenAt(toks, i), it, parse_factor(toks, i + 1))
    ELSE Parsed(node, i, it)

term_start(toks, f) ==
    IF f.fatal # "none" THEN f ELSE term_loop(toks, f.node, f.index, f.iters)
parse_term(toks, i) == term_start(toks, parse_factor(toks, i))

\* an arm of the loop of parse_additive once parse_term returned the right operand t
additive_fold(toks, node, op, it, t) ==
    IF t.fatal # "none" THEN t
    ELSE additive_loop(toks,
                       IF op = Operator("+") THEN Add(node, t.node) ELSE Subtract(node, t.node),
                       t.index, it \o t.iters)

\* Mutant of additive_loop: the right operand is a factor, not a term.
additive_loop_over_factors(toks, node, i, it) ==
    IF ~InBounds(toks, i) THEN ParsePanic("IndexOutOfBounds", i)
    ELSE IF TokenAt(toks, i) \in {Operator("+"), Operator("-")}
    THEN additive_fold(toks, node, TokenAt(toks, i), it, parse_factor(toks, i + 1))
    ELSE Parsed(node, i, it)

additive_loop(toks, node, i, it) ==
    IF ~InBounds(toks, i) THEN ParsePanic("IndexOutOfBounds", i)
    ELSE IF TokenAt(toks, i) \in {Operator("+"), Operator("-")}
    THEN additive_fold(toks, node, TokenAt(toks, i), it, parse_term(toks, i + 1))
    ELSE Parsed(node, i, it)

additive_start(toks, t) ==
    IF t.fatal # "none" THEN t ELSE additive_loop(toks, t.node, t.index, t.iters)
parse_additive(toks, i) == additive_start(toks, parse_term(toks, i))

\* the '=' arm of the loop of parse_expression once the recursive call returned e.
\* n: iterations of the arm this activation has run; it: history of the
\* activations nested in it so far
expression_fold(toks, node, n, it, e) ==
    IF e.fatal # "none" THEN e
    ELSE expression_loop(toks, Assign(node, e.node), e.index, n + 1, it \o e.iters)

\* Mutant of expression_loop: the right side is an additive expression, so that a
\* chain is folded by the loop.
expression_loop_folding(toks, node, i, n, it) ==
    IF ~InBounds(toks, i) THEN ParsePanic("IndexOutOfBounds", i)
    ELSE IF TokenAt(toks, i) = Operator("=")
    THEN expression_fold(toks, node, n, it, parse_additive(toks, i + 1))
    ELSE Parsed(node, i, <<n>> \o it)

expression_loop(toks, node, i, n, it) ==
    IF ~InBounds(toks, i) THEN ParsePanic("IndexOutOfBounds", i)
    ELSE IF TokenAt(toks, i) = Operator("=")
    THEN expression_fold(toks, node, n, it, parse_expression(toks, i + 1))
    ELSE Parsed(node, i, <<n>> \o it)

expression_start(toks, a) ==
    IF a.fatal # "none" THEN a ELSE expression_loop(toks, a.node, a.index, 0, a.iters)
parse_expression(toks, i) == expression_start(toks, parse_additive(toks, i))

\* Mutant of parse: the token after the top-level expression must be InputEnd.
parse_to_end(toks) ==
    LET p == parse_expression(toks, 0)
    IN  IF p.fatal # "none" THEN p
        ELSE IF ~InBounds(toks, p.index) THEN ParsePanic("IndexOutOfBounds", p.index)
        ELSE IF TokenAt(toks, p.index) = InputEnd THEN p
        ELSE ParsePanic("UnexpectedToken", p.index)

parse(toks) == parse_expression(toks, 0)

(***************************************************************************)
(* The environment (HashMap<String, i32>) and evaluate_expression.  A      *)
(* result carries the value, the environment as the call left it, the      *)
(* panic if any, and, as history, the inserts the call completed.          *)
(***************************************************************************)
EmptyEnvironment == << >>
Insert(env, name, v) == [n \in DOMAIN env \cup {name} |-> IF n = name THEN v ELSE env[n]]

Evaluated(v, env, w) == [value |-> v, environment |-> env, fatal |-> "none", writes |-> w]
EvalPanic(kind, env, w) == [value |-> 0, environment |-> env, fatal |-> kind, writes |-> w]

BinaryKinds == {"Add", "Subtract", "Multiply", "Divide"}
Apply(kind, a, b, checks) ==
    CASE kind = "Add" -> I32Add(a, b, checks)
      [] kind = "Subtract" -> I32Sub(a, b, checks)
      [] kind = "Multiply" -> I32Mul(a, b, checks)
      [] kind = "Divide" -> I32Div(a, b)

RECURSIVE evaluate_expression(_, _, _)

\* both operands are evaluated: apply the operator
binary_apply(l, r, v) ==
    IF v.fatal # "none" THEN EvalPanic(v.fatal, r.environment, l.writes \o r.writes)
    ELSE Evaluated(v.value, r.environment, l.writes \o r.writes)

binary_right(node, l, r, checks) ==
    IF r.fatal # "none" THEN EvalPanic(r.fatal, r.environment, l.writes \o r.writes)
    ELSE binary_apply(l, r, Apply(node.kind, l.value, r.value, checks))

\* the right operand is evaluated in the environment the left operand left
binary_left(node, l, checks) ==
    IF l.fatal # "none" THEN l
    ELSE binary_right(node, l, evaluate_expression(node.right, l.environment, checks), checks)

\* Mutant of evaluate_binary: the right operand is evaluated first.
evaluate_binary_right_first(node, env, checks) ==
    LET r == evaluate_expression(node.right, env, checks)
    IN  IF r.fatal # "none" THEN r
        ELSE LET l == evaluate_expression(node.left, r.environment, checks)
                 v == Apply(node.kind, l.value, r.value, checks)
             IN  IF l.fatal # "none" THEN EvalPanic(l.fatal, l.environment, r.writes \o l.writes)
                 ELSE IF v.fatal # "none" THEN EvalPanic(v.fatal, l.environment, r.writes \o l.writes)
                 ELSE Evaluated(v.value, l.environment, r.writes \o l.writes)

\* the arms Add, Subtract, Multiply, Divide: left operand first
evaluate_binary(node, env, checks) ==
    binary_left(node, evaluate_expression(node.left, env, checks), checks)

\* Mutant of assign_insert: a name already bound keeps its value (entry().or_insert).
assign_insert_vacant(name, r) ==
    IF r.fatal # "none" THEN r
    ELSE IF name \in DOMAIN r.environment THEN Evaluated(r.value, r.environment, r.writes)
    ELSE Evaluated(r.value, Insert(r.environment, name, r.value),
                   Append(r.writes, <<name, r.value>>))

\* environment.insert(identifier, value); value
assign_insert(name, r) ==
    IF r.fatal # "none" THEN r
    ELSE Evaluated(r.value, Insert(r.environment, name, r.value),
                   Append(r.writes, <<name, r.value>>))

\* the arm Assign: the target is checked before the value is evaluated
evaluate_assign(node, env, checks) ==
    IF node.left.kind = "Identifier"
    THEN assign_insert(node.left.name, evaluate_expression(node.right, env, checks))
    ELSE EvalPanic("InvalidAssignmentTarget", env, <<>>)

\* the arm Identifier
evaluate_identifier(node, env) ==
    IF node.name \in DOMAIN env THEN Evaluated(env[node.name], env, <<>>)
    ELSE EvalPanic("UnknownIdentifier", env, <<>>)

evaluate_expression(node, env, checks) ==
    CASE node.kind \in BinaryKinds -> evaluate_binary(node, env, checks)
      [] node.kind = "IntLiteral" -> Evaluated(node.value, env, <<>>)
      [] node.kind = "Assign" -> evaluate_assign(node, env, checks)
      [] node.kind = "Identifier" -> evaluate_identifier(node, env)

\* evaluate: a fresh environment
evaluate(node, checks) == evaluate_expression(node, EmptyEnvironment, checks)

(***************************************************************************)
(* interpret, interpret_with_environment: tokenize_all, parse, evaluate    *)
(***************************************************************************)
Interpreted(toks, p, e) ==
    [tokens |-> toks, ast |-> p.node, iters |-> p.iters, value |-> e.value,
     environment |-> e.environment, writes |-> e.writes, fatal |-> e.fatal]
InterpretPanic(kind, toks, env) ==
    [tokens |-> toks, ast |-> NoNode, iters |-> <<>>, value |-> 0,
     environment |-> env, writes |-> <<>>, fatal |-> kind]

\* interpret: tokenize_all(input), parse(tokens), evaluate(ast) in a fresh environment
interpret_parsed(toks, p, checks) ==
    IF p.fatal # "none" THEN InterpretPanic(p.fatal, toks, EmptyEnvironment)
    ELSE Interpreted(toks, p, evaluate(p.node, checks))
interpret_tokens(t, checks) ==
    IF t.fatal # "none" THEN InterpretPanic(t.fatal, <<>>, EmptyEnvironment)
    ELSE interpret_parsed(t.tokens, parse(t.tokens), checks)
interpret(text, checks) == interpret_tokens(tokenize_all(text), checks)

\* interpret_with_environment: the same against the caller's environment
with_environment_parsed(toks, p, env, checks) ==
    IF p.fatal # "none" THEN InterpretPanic(p.fatal, toks, env)
    ELSE Interpreted(toks, p, evaluate_expression(p.node, env, checks))
with_environment_tokens(t, env, checks) ==
    IF t.fatal # "none" THEN InterpretPanic(t.fatal, <<>>, env)
    ELSE with_environment_parsed(t.tokens, parse(t.tokens), env, checks)
\* Mutant of interpret_with_environment: every input gets a fresh environment.
interpret_ignoring_environment(text, env, checks) == interpret(text, checks)

interpret_with_environment(text, env, checks) ==
    with_environment_tokens(tokenize_all(text), env, checks)

(***************************************************************************)
(* Input domains.  Bounds first.                                           *)
(***************************************************************************)
MaxInputs == 3      \* longest Vec of inputs handed to interpret_expressions
MaxInputLen == 4    \* longest raw text handed to the scanner
MaxCalls == 6       \* direct next_token calls on one scanner
MaxRun == 4         \* most operands in a run of same-level operators
MaxChain == 3       \* most identifiers x1 .. xn in a chained assignment
MaxNodes == 2       \* most inner nodes of a tree handed to the evaluator

\* decimal text of a natural number
RECURSIVE Decimal(_)
Decimal(n) == IF n < 10 THEN <<DigitChars[n + 1]>>
              ELSE Decimal(n \div 10) \o <<DigitChars[(n % 10) + 1]>>

\* lexemes separated by single spaces
RECURSIVE Spaced(_)
Spaced(lexemes) ==
    IF Len(lexemes) = 0 THEN <<>>
    ELSE IF Len(lexemes) = 1 THEN lexemes[1]
    ELSE lexemes[1] \o <<" ">> \o Spaced(Tail(lexemes))

\* all sequences over S of length lo..hi
SeqsBetween(S, lo, hi) == UNION {[1..n -> S] : n \in lo..hi}

(***************************************************************************)
(* interpret_expressions: the statements the inputs are drawn from         *)
(***************************************************************************)
Statements ==
    { <<"x", " ", "=", " ", "1">>,
      <<"y", " ", "=", " ", "2">>,
      <<"x", " ", "+", " ", "y">>,
      <<"x", "=", "x", "+", "1">>,
      <<"y", "=", "x", "=", "4">>,
      <<"(", "x", "=", "1", ")", "+", "x">>,
      <<"x", "+", "(", "x", "=", "1", ")">>,
      <<"(", "y", "=", "5", ")", "+", "z">>,
      <<"(", "x", "=", "7", ")", "/", "0">>,
      <<"(", "x", "=", "3", ")", "+", "(", "1", "=", "2", ")">>,
      <<"x", "=", "(", "y", "=", "9", ")", "+">>,
      <<"y", "=", "9", "#">>,
      <<"x", "=">> \o Decimal(I32Max) \o <<"+", "1">> }

EvalFatals == {"UnknownIdentifier", "InvalidAssignmentTarget", "DivisionByZero",
               "ArithmeticOverflow"}

Init ==
    /\ overflow_checks \in BOOLEAN
    /\ inputs \in SeqsBetween(Statements, 0, MaxInputs)
    /\ input_index = 1
    /\ pc = IF inputs = <<>> THEN "done" ELSE "running"
    /\ input = <<>>
    /\ current_index = 0
    /\ token = NoToken
    /\ calls = 0
    /\ tokens = <<>>
    /\ ast = NoNode
    /\ parse_iters = <<>>
    /\ environment = EmptyEnvironment
    /\ result = 0
    /\ fatal = "none"
    /\ env_before = EmptyEnvironment
    /\ writes = <<>>

\* One iteration of the for loop of interpret_expressions:
\* result = interpret_with_environment(input, &mut environment); after the last
\* input the function returns result.  A panic ends the run.
\* Mutant of InterpretOutcome: a panicking input leaves the environment as it found it
\* (the evaluation ran on a copy).
InterpretOutcomeRestoring(r) ==
    /\ tokens' = r.tokens
    /\ ast' = r.ast
    /\ parse_iters' = r.iters
    /\ env_before' = environment
    /\ environment' = IF r.fatal # "none" THEN environment ELSE r.environment
    /\ writes' = writes \o r.writes
    /\ fatal' = r.fatal
    /\ IF r.fatal # "none"
       THEN /\ pc' = "panicked"
            /\ UNCHANGED <<result, input_index>>
       ELSE /\ result' = r.value
            /\ IF input_index < Len(inputs)
               THEN input_index' = input_index + 1 /\ pc' = "running"
               ELSE input_index' = input_index /\ pc' = "done"

InterpretOutcome(r) ==
    /\ tokens' = r.tokens
    /\ ast' = r.ast
    /\ parse_iters' = r.iters
    /\ env_before' = environment
    /\ environment' = r.environment
    /\ writes' = writes \o r.writes
    /\ fatal' = r.fatal
    /\ IF r.fatal # "none"
       THEN /\ pc' = "panicked"
            /\ UNCHANGED <<result, input_index>>
       ELSE /\ result' = r.value
            /\ IF input_index < Len(inputs)
               THEN input_index' = input_index + 1 /\ pc' = "running"
               ELSE input_index' = input_index /\ pc' = "done"

Interpret ==
    /\ pc = "running"
    /\ InterpretOutcome(interpret_with_environment(inputs[input_index], environment,
                                                   overflow_checks))
    /\ UNCHANGED <<overflow_checks, inputs, input, current_index, token, calls>>

Next == Interpret

Spec == Init /\ [][Next]_vars

(***************************************************************************)
(* The scanner under direct use: a client holds TokenizerImpl::new(input)  *)
(* and calls next_token any number of times; it may also call              *)
(* tokenize_all(input), which scans with a tokenizer of its own.           *)
(***************************************************************************)
ScanAlphabet == {"(", "+", "x", NonAsciiLetter, "1", " ", "#"}
LongNumbers == { Decimal(I32Max), Decimal(I32Max \div 10) \o <<"8">>,
                 <<"0", "0">> \o Decimal(I32Max) \o <<" ">>,
                 Decimal(I32Max) \o <<"0">> }
ScanInputs(n) == SeqsBetween(ScanAlphabet, 0, n) \cup LongNumbers

InitTokenizer ==
    /\ overflow_checks = TRUE    \* the scanner does no i32 arithmetic of its own
    /\ inputs = <<>>
    /\ input_index = 1
    /\ pc = "scanner"
    /\ input \in ScanInputs(MaxInputLen)
    /\ current_index = 0
    /\ token = NoToken
    /\ calls = 0
    /\ tokens = <<>>
    /\ ast = NoNode
    /\ parse_iters = <<>>
    /\ environment = EmptyEnvironment
    /\ result = 0
    /\ fatal = "none"
    /\ env_before = EmptyEnvironment
    /\ writes = <<>>

NextTokenOutcome(r) ==
    /\ token' = r.token
    /\ current_index' = r.current_index
    /\ fatal' = r.fatal
    /\ pc' = IF r.fatal # "none" THEN "panicked" ELSE pc

\* one call of next_token on the client's scanner
NextToken ==
    /\ pc = "scanner"
    /\ calls < MaxCalls
    /\ calls' = calls + 1
    /\ NextTokenOutcome(next_token(input, current_index))
    /\ UNCHANGED <<overflow_checks, inputs, input_index, input, tokens, ast, parse_iters,
                   environment, result, env_before, writes>>

TokenizeAllOutcome(r) ==
    /\ tokens' = IF r.fatal # "none" THEN <<>> ELSE r.tokens
    /\ fatal' = r.fatal
    /\ pc' = IF r.fatal # "none" THEN "panicked" ELSE pc

\* one call of tokenize_all(input)
TokenizeAll ==
    /\ pc = "scanner"
    /\ tokens = <<>>
    /\ TokenizeAllOutcome(tokenize_all(input))
    /\ UNCHANGED <<overflow_checks, inputs, input_index, input, current_index, token, calls,
                   ast, parse_iters, environment, result, env_before, writes>>

NextTokenizer == NextToken \/ TokenizeAll

SpecTokenizer == InitTokenizer /\ [][NextTokenizer]_vars

(***************************************************************************)
(* interpret(input) on inputs of the shapes the grammar is about           *)
(***************************************************************************)
Literals == {0, 1, 2, 7, I32Max}
RunLiterals == {1, 2, 7}
ArithmeticChars == {"+", "-", "*", "/"}
AdditiveChars == {"+", "-"}
MultiplicativeChars == {"*", "/"}

\* "a op1 b op2 c"
MixedInputs ==
    { Spaced(<<Decimal(a), <<o1>>, Decimal(b), <<o2>>, Decimal(c)>>) :
          a \in Literals, b \in Literals, c \in Literals,
          o1 \in ArithmeticChars, o2 \in ArithmeticChars }

\* "v1 o1 v2 ... o(n-1) vn"
RECURSIVE Interleave(_, _)
Interleave(vs, os) ==
    IF Len(vs) = 1 THEN <<Decimal(vs[1])>>
    ELSE <<Decimal(vs[1]), <<os[1]>>>> \o Interleave(Tail(vs), Tail(os))
RunsOver(level, most) ==
    UNION { { Spaced(Interleave(vs, os)) : vs \in [1..n -> RunLiterals],
                                             os \in [1..(n - 1) -> level] } : n \in 2..most }
RunInputs(most) == RunsOver(AdditiveChars, most) \cup RunsOver(MultiplicativeChars, most)

\* "x1 = x2 = ... = xn = e"
ChainNames == {<<"a">>, <<"b">>}
ChainValues == { <<"c">>, <<"1">>, <<"1", "+", "2", "*", "c">>,
                 <<"(", "b", "=", "2", ")", "+", "1">>,
                 <<"(", "c", "=", "1", ")", "=", "2">> }
RECURSIVE ChainText(_, _)
ChainText(names, e) ==
    IF names = <<>> THEN e ELSE names[1] \o <<" ", "=", " ">> \o ChainText(Tail(names), e)
ChainInputs(most) ==
    UNION { { ChainText(names, e) : names \in [1..n -> ChainNames], e \in ChainValues }
            : n \in 1..most }

\* a complete expression, then tokens that cannot continue it
Leads == { <<"7">>, <<"1", " ", "+", " ", "2">>, <<"x", "=", "1">>,
           <<"(", "1", "+", "2", ")", "*", "3">>, <<"x", "=", "y", "=", "2", "*", "3">>,
           <<"1", "/", "0">> }
Trails == { <<>>, <<"3">>, <<")">>, <<"(">>, <<"x">>, <<"3", " ", "+">>,
            <<")", "5", "(">>, <<"y", "=", "3">>, <<"(", "1", "/", "0", ")">> }
TrailingInputs == { l \o <<" ">> \o t : l \in Leads, t \in Trails }

ShapeInputs(run, chain) ==
    MixedInputs \cup RunInputs(run) \cup ChainInputs(chain) \cup TrailingInputs

InitInterpret ==
    /\ overflow_checks \in BOOLEAN
    /\ inputs = <<>>
    /\ input_index = 1
    /\ pc = "interpret"
    /\ input \in ShapeInputs(MaxRun, MaxChain)
    /\ current_index = 0
    /\ token = NoToken
    /\ calls = 0
    /\ tokens = <<>>
    /\ ast = NoNode
    /\ parse_iters = <<>>
    /\ environment = EmptyEnvironment
    /\ result = 0
    /\ fatal = "none"
    /\ env_before = EmptyEnvironment
    /\ writes = <<>>

InterpretCallOutcome(r) ==
    /\ tokens' = r.tokens
    /\ ast' = r.ast
    /\ parse_iters' = r.iters
    /\ environment' = r.environment
    /\ writes' = r.writes
    /\ fatal' = r.fatal
    /\ result' = IF r.fatal # "none" THEN result ELSE r.value
    /\ pc' = IF r.fatal # "none" THEN "panicked" ELSE "done"

\* one call of interpret(input); environment is the one evaluate created
InterpretCall ==
    /\ pc = "interpret"
    /\ InterpretCallOutcome(interpret(input, overflow_checks))
    /\ UNCHANGED <<overflow_checks, inputs, input_index, input, current_index, token, calls,
                   env_before>>

NextInterpret == InterpretCall

SpecInterpret == InitInterpret /\ [][NextInterpret]_vars

(***************************************************************************)
(* evaluate_expression(node, &mut environment) on trees built directly     *)
(* (evaluate(node) is the case of the empty environment)                   *)
(***************************************************************************)
Operands == {I32Min, -I32Max, -46341, -7, -2, -1, 0, 1, 2, 7, 46341, I32Max}
Node(kind, l, r) == [kind |-> kind, left |-> l, right |-> r]
OperandTrees ==
    { Node(k, IntLiteral(a), IntLiteral(b)) : k \in BinaryKinds, a \in Operands, b \in Operands }

Leaves == {IntLiteral(1), Identifier(<<"x">>), Identifier(<<"y">>)}
NodeKinds == {"Add", "Divide", "Assign"}
\* the trees with exactly n inner nodes, and those with at most n
NodesOver(L, R) == { Node(k, l, r) : k \in NodeKinds, l \in L, r \in R }
RECURSIVE TreesOfSize(_)
TreesOfSize(n) ==
    IF n = 0 THEN Leaves
    ELSE UNION { NodesOver(TreesOfSize(m), TreesOfSize(n - 1 - m)) : m \in 0..(n - 1) }
SmallTrees(most) == UNION { TreesOfSize(n) : n \in 0..most }

\* every binary operator over operands that write and read x
OrderOperands == { IntLiteral(2), Identifier(<<"x">>), Assign(Identifier(<<"x">>), IntLiteral(1)),
                   Assign(Identifier(<<"x">>), Add(Identifier(<<"x">>), IntLiteral(1))) }
OrderTrees == { Node(k, l, r) : k \in BinaryKinds, l \in OrderOperands, r \in OrderOperands }

Environments == { EmptyEnvironment,
                  [n \in {<<"x">>} |-> 5],
                  [n \in {<<"x">>, <<"y">>} |-> IF n = <<"x">> THEN 5 ELSE 0] }

InitEvaluate ==
    /\ overflow_checks \in BOOLEAN
    /\ inputs = <<>>
    /\ input_index = 1
    /\ pc = "evaluate"
    /\ input = <<>>
    /\ current_index = 0
    /\ token = NoToken
    /\ calls = 0
    /\ tokens = <<>>
    /\ \/ ast \in OperandTrees /\ environment = EmptyEnvironment
       \/ ast \in SmallTrees(MaxNodes) \cup OrderTrees /\ environment \in Environments
    /\ parse_iters = <<>>
    /\ result = 0
    /\ fatal = "none"
    /\ env_before = environment
    /\ writes = <<>>

EvaluateOutcome(r) ==
    /\ env_before' = environment
    /\ environment' = r.environment
    /\ writes' = r.writes
    /\ fatal' = r.fatal
    /\ result' = IF r.fatal # "none" THEN result ELSE r.value
    /\ pc' = IF r.fatal # "none" THEN "panicked" ELSE "done"

\* one call of evaluate_expression(ast, &mut environment)
EvaluateCall ==
    /\ pc = "evaluate"
    /\ EvaluateOutcome(evaluate_expression(ast, environment, overflow_checks))
    /\ UNCHANGED <<overflow_checks, inputs, input_index, input, current_index, token, calls,
                   tokens, ast, parse_iters>>

NextEvaluate == EvaluateCall

SpecEvaluate == InitEvaluate /\ [][NextEvaluate]_vars

(***************************************************************************)
(* Properties of interpret_expressions (specification Spec)                *)
(***************************************************************************)
\* The environment a log of (name, value) inserts describes: every name in the log,
\* mapped to the value of the last insert for it.
LastIndexOf(w, name) == CHOOSE i \in DOMAIN w : w[i][1] = name /\ \A j \in DOMAIN w : w[j][1] = name => j <= i
LastAssigned(w) == [name \in {w[i][1] : i \in DOMAIN w} |-> w[LastIndexOf(w, name)][2]]

\* env with the inserts of log w laid over it
Overlay(env, w) ==
    [name \in DOMAIN env \cup DOMAIN LastAssigned(w) |->
        IF name \in DOMAIN LastAssigned(w) THEN LastAssigned(w)[name] ELSE env[name]]

TestInputs == << <<"x", " ", "=", " ", "1">>, <<"y", " ", "=", " ", "2">>, <<"x", " ", "+", " ", "y">> >>

\* C1: interpret_expressions runs every input in order against one environment that
\* starts empty: whenever input k is about to be evaluated (and when the run has
\* returned), the environment maps each name to the value of the most recent Assign
\* evaluated for it in the inputs before, and the integer returned is the value of
\* the last input (3 for the inputs "x = 1", "y = 2", "x + y").
C1_SharedEnvironment ==
    /\ pc \in {"running", "done"} => environment = LastAssigned(writes)
    /\ (pc = "done" /\ inputs # <<>>) =>
          /\ input_index = Len(inputs)
          /\ tokens = tokenize_all(inputs[Len(inputs)]).tokens
          /\ ast = parse(tokens).node
          /\ result = evaluate_expression(ast, env_before, overflow_checks).value
    /\ (pc = "done" /\ inputs = TestInputs) => result = 3

C1_Witness ==
    /\ pc = "done"
    /\ inputs = TestInputs
    /\ result = 3
    /\ environment = [n \in {<<"x">>, <<"y">>} |-> IF n = <<"x">> THEN 1 ELSE 2]

\* C6 as claimed: a fatal condition raised while an input is evaluated returns no
\* integer, ends the run, and leaves the environment as it was before that input.
C6_Original ==
    [][ /\ pc # "panicked"
        /\ (pc' = "panicked" /\ fatal' \in EvalFatals) =>
              /\ result' = result
              /\ input_index' = input_index
              /\ environment' = environment ]_vars

\* C6 as amended: a fatal condition raised while an input is evaluated returns no
\* integer and ends the run (no step follows), but the environment is not rolled
\* back: it is the environment before that input with every insert laid over it that
\* the aborted evaluation completed before the fatal condition.
C6_PartialEnvironment ==
    [][ /\ pc # "panicked"
        /\ (pc' = "panicked" /\ fatal' \in EvalFatals) =>
              /\ result' = result
              /\ input_index' = input_index
              /\ Len(writes') >= Len(writes)
              /\ environment' = Overlay(environment,
                                        SubSeq(writes', Len(writes) + 1, Len(writes')))
              /\ (inputs[input_index] = <<"(", "y", "=", "5", ")", "+", "z">> =>
                     /\ fatal' = "UnknownIdentifier"
                     /\ <<"y">> \in DOMAIN environment'
                     /\ environment'[<<"y">>] = 5) ]_vars

C6_Witness ==
    /\ pc = "panicked"
    /\ fatal = "UnknownIdentifier"
    /\ <<"y">> \in DOMAIN environment
    /\ <<"y">> \notin DOMAIN env_before

(***************************************************************************)
(* Properties of evaluate_expression (specification SpecEvaluate)          *)
(***************************************************************************)
Returned == pc \in {"done", "panicked"}     \* the call has ended
X == <<"x">>
Y == <<"y">>

IsOperandTree ==
    /\ ast.kind \in BinaryKinds
    /\ ast.left.kind = "IntLiteral"
    /\ ast.right.kind = "IntLiteral"

\* the exact result of a op b is an i32 (and, for Divide, exists)
ExactInRange(kind, a, b) ==
    CASE kind = "Add" -> ~AddOverflows(a, b)
      [] kind = "Subtract" -> ~SubOverflows(a, b)
      [] kind = "Multiply" -> ~MulOverflows(a, b)
      [] kind = "Divide" -> b # 0 /\ ~(a = I32Min /\ b = -1)

\* q is the integer quotient of a by b: a = q * b + rem with |rem| < |b| and rem
\* zero or of the sign of a
IsQuotient(a, b, q) ==
    /\ ~MulOverflows(q, b)
    /\ ~SubOverflows(a, q * b)
    /\ LET rem == a - q * b
       IN  /\ rem = 0 \/ ((rem > 0) = (a > 0))
           /\ IF b > 0 THEN -b < rem /\ rem < b ELSE b < rem /\ (rem = 0 \/ -rem > b)

\* r is the exact result of a op b, for a, b with ExactInRange
IsExact(kind, a, b, r) ==
    CASE kind = "Add" -> r = a + b
      [] kind = "Subtract" -> r = a - b
      [] kind = "Multiply" -> r = a * b
      [] kind = "Divide" -> IsQuotient(a, b, r)

\* r is the exact result of a op b reduced modulo 2^32 into the i32 range
IsWrapped(kind, a, b, r) ==
    CASE kind = "Add" -> r = WrappingAdd(a, b)
      [] kind = "Subtract" -> r = WrappingSub(a, b)
      [] kind = "Multiply" -> r = WrappingMul(a, b)

\* C2 as claimed: for all i32 a and b, evaluate(Add(a, b)) = a + b, likewise for
\* Subtract and Multiply, Divide(a, b) is the integer quotient for b # 0, and
\* Divide(a, 0) raises DivisionByZero.
C2_Original ==
    (Returned /\ IsOperandTree) =>
        IF ast.kind = "Divide" /\ ast.right.value = 0
        THEN fatal = "DivisionByZero"
        ELSE /\ fatal = "none"
             /\ ExactInRange(ast.kind, ast.left.value, ast.right.value)
             /\ IsExact(ast.kind, ast.left.value, ast.right.value, result)

\* C2 as amended: whenever the exact result of a op b is an i32, evaluate returns it
\* (for Divide: the quotient rounded toward zero); Divide(a, 0) raises
\* DivisionByZero.  When the exact result is no i32, no exact result is returned:
\* Add, Subtract and Multiply raise an arithmetic-overflow panic in a build with
\* overflow checks and return the result wrapped modulo 2^32 in a build without;
\* Divide(i32::MIN, -1) raises the overflow panic in every build.
C2_Arithmetic ==
    (Returned /\ IsOperandTree) =>
        IF ExactInRange(ast.kind, ast.left.value, ast.right.value)
        THEN /\ fatal = "none"
             /\ IsExact(ast.kind, ast.left.value, ast.right.value, result)
        ELSE IF ast.kind = "Divide"
        THEN fatal = (IF ast.right.value = 0 THEN "DivisionByZero" ELSE "ArithmeticOverflow")
        ELSE IF overflow_checks
        THEN fatal = "ArithmeticOverflow"
        ELSE /\ fatal = "none"
             /\ IsWrapped(ast.kind, ast.left.value, ast.right.value, result)

C2_Witness ==
    /\ Returned
    /\ ast = Add(IntLiteral(I32Max), IntLiteral(1))
    /\ ~overflow_checks
    /\ fatal = "none"
    /\ result = I32Min

\* C5: evaluating Assign(Identifier(name), value) in an environment E, where value
\* evaluates to v, returns v and leaves the environment that evaluating value left,
\* with name mapped to v (overwriting any earlier binding of name): no binding of
\* another name is added, removed or changed by the Assign itself.
C5_AssignFrame ==
    (Returned /\ ast.kind = "Assign" /\ ast.left.kind = "Identifier") =>
        LET v == evaluate_expression(ast.right, env_before, overflow_checks)
            name == ast.left.name
        IN  v.fatal = "none" =>
               /\ pc = "done"
               /\ result = v.value
               /\ DOMAIN environment = DOMAIN v.environment \cup {name}
               /\ environment[name] = v.value
               /\ \A other \in DOMAIN v.environment \ {name} :
                      environment[other] = v.environment[other]

C5_Witness ==
    /\ pc = "done"
    /\ ast = Assign(Identifier(X), IntLiteral(1))
    /\ env_before = [n \in {X, Y} |-> IF n = X THEN 5 ELSE 0]
    /\ environment = [n \in {X, Y} |-> IF n = X THEN 1 ELSE 0]
    /\ result = 1

\* C7: for every binary node, the left operand is evaluated completely, in the
\* environment of the call, before the right operand is started, and the right
\* operand is evaluated in the environment the left one left: writes of the left are
\* seen by the right, writes of the right are not seen by the left, and a panic of
\* the left leaves the right unevaluated.  "(x = 1) + x" is 2 in an empty
\* environment; "x + (x = 1)" raises UnknownIdentifier there.
C7_LeftBeforeRight ==
    /\ (Returned /\ ast.kind \in BinaryKinds) =>
          LET l == evaluate_expression(ast.left, env_before, overflow_checks)
              r == evaluate_expression(ast.right, l.environment, overflow_checks)
              v == Apply(ast.kind, l.value, r.value, overflow_checks)
          IN  IF l.fatal # "none"
              THEN fatal = l.fatal /\ environment = l.environment /\ writes = l.writes
              ELSE /\ environment = r.environment
                   /\ writes = l.writes \o r.writes
                   /\ IF r.fatal # "none" THEN fatal = r.fatal
                      ELSE fatal = v.fatal /\ (v.fatal = "none" => result = v.value)
    /\ (Returned /\ env_before = EmptyEnvironment
          /\ ast = Add(Assign(Identifier(X), IntLiteral(1)), Identifier(X))) =>
          fatal = "none" /\ result = 2
    /\ (Returned /\ env_before = EmptyEnvironment
          /\ ast = Add(Identifier(X), Assign(Identifier(X), IntLiteral(1)))) =>
          fatal = "UnknownIdentifier" /\ environment = EmptyEnvironment

C7_Witness ==
    /\ pc = "done"
    /\ env_before = EmptyEnvironment
    /\ ast = Add(Assign(Identifier(X), IntLiteral(1)), Identifier(X))
    /\ result = 2
    /\ environment = [n \in {X} |-> 1]

(***************************************************************************)
(* Properties of the parser as interpret drives it (specification          *)
(* SpecInterpret)                                                          *)
(***************************************************************************)
KindOf(op) ==
    CASE op = "+" -> "Add" [] op = "-" -> "Subtract" [] op = "*" -> "Multiply"
      [] op = "/" -> "Divide"

\* the exact value of a op b; the inputs of these shapes divide naturals only
Exact(kind, a, b) ==
    CASE kind = "Add" -> a + b
      [] kind = "Subtract" -> a - b
      [] kind = "Multiply" -> a * b
      [] kind = "Divide" -> a \div b

Text(lexemes) == Spaced(lexemes)

\* the tokens of "a o1 b o2 c"
IsLiteralTriple ==
    /\ Len(tokens) = 6
    /\ \A i \in {1, 3, 5} : tokens[i].type = "Int"
    /\ \A i \in {2, 4} : tokens[i].type = "Operator" /\ tokens[i].op \in ArithmeticChars
    /\ tokens[6] = InputEnd

\* C3: in "a o1 b o2 c" with one additive and one multiplicative operator the
\* multiplicative one is the child: "a + b * c" is Add(a, Multiply(b, c)) and
\* "a * b + c" is Add(Multiply(a, b), c), likewise with '-' and '/'; where the
\* exact values are i32, interpret returns a + (b * c), never (a + b) * c.
C3_Precedence ==
    /\ (Returned /\ IsLiteralTriple) =>
          LET a == tokens[1].value
              b == tokens[3].value
              c == tokens[5].value
              k1 == KindOf(tokens[2].op)
              k2 == KindOf(tokens[4].op)
          IN  /\ (tokens[2].op \in AdditiveChars /\ tokens[4].op \in MultiplicativeChars) =>
                    /\ ast = Node(k1, IntLiteral(a), Node(k2, IntLiteral(b), IntLiteral(c)))
                    /\ (ExactInRange(k2, b, c) /\ ExactInRange(k1, a, Exact(k2, b, c))) =>
                           fatal = "none" /\ result = Exact(k1, a, Exact(k2, b, c))
              /\ (tokens[2].op \in MultiplicativeChars /\ tokens[4].op \in AdditiveChars) =>
                    /\ ast = Node(k2, Node(k1, IntLiteral(a), IntLiteral(b)), IntLiteral(c))
                    /\ (ExactInRange(k1, a, b) /\ ExactInRange(k2, Exact(k1, a, b), c)) =>
                           fatal = "none" /\ result = Exact(k2, Exact(k1, a, b), c)
    /\ (Returned /\ input = Text(<<<<"1">>, <<"+">>, <<"2">>, <<"*">>, <<"7">>>>)) =>
          fatal = "none" /\ result = 15

C3_Witness ==
    /\ pc = "done"
    /\ input = Text(<<<<"1">>, <<"+">>, <<"2">>, <<"*">>, <<"7">>>>)
    /\ ast = Add(IntLiteral(1), Multiply(IntLiteral(2), IntLiteral(7)))
    /\ result = 15

\* the tokens of "v1 o1 v2 ... vn" (n >= 2) with every operator of one level
IsRunOf(level) ==
    /\ Len(tokens) >= 4
    /\ Len(tokens) % 2 = 0
    /\ tokens[Len(tokens)] = InputEnd
    /\ \A i \in 1..(Len(tokens) - 1) :
          IF i % 2 = 1 THEN tokens[i].type = "Int"
          ELSE tokens[i].type = "Operator" /\ tokens[i].op \in level

\* the left-nested tree over the first n operands of a run
RECURSIVE LeftFold(_, _)
LeftFold(toks, n) ==
    IF n = 1 THEN IntLiteral(toks[1].value)
    ELSE Node(KindOf(toks[2 * n - 2].op), LeftFold(toks, n - 1), IntLiteral(toks[2 * n - 1].value))

\* its exact value, computed left to right; ok is FALSE when some step has no i32
\* value
FoldStep(kind, acc, b) ==
    IF acc.ok /\ ExactInRange(kind, acc.value, b)
    THEN [ok |-> TRUE, value |-> Exact(kind, acc.value, b)]
    ELSE [ok |-> FALSE, value |-> 0]
RECURSIVE FoldExact(_, _)
FoldExact(toks, n) ==
    IF n = 1 THEN [ok |-> TRUE, value |-> toks[1].value]
    ELSE FoldStep(KindOf(toks[2 * n - 2].op), FoldExact(toks, n - 1), toks[2 * n - 1].value)

\* C4: a run of operators of one level ('+'/'-', or '*'/'/') over integer literals
\* parses to the left-nested fold, whatever its length: "a - b - c" is
\* Subtract(Subtract(a, b), c), and interpret returns (a - b) - c.
C4_LeftAssociative ==
    /\ \A level \in {AdditiveChars, MultiplicativeChars} :
          (Returned /\ IsRunOf(level)) =>
              /\ ast = LeftFold(tokens, Len(tokens) \div 2)
              /\ FoldExact(tokens, Len(tokens) \div 2).ok =>
                     /\ fatal = "none"
                     /\ result = FoldExact(tokens, Len(tokens) \div 2).value
    /\ (Returned /\ input = Text(<<<<"7">>, <<"-">>, <<"2">>, <<"-">>, <<"1">>>>)) =>
          /\ ast = Subtract(Subtract(IntLiteral(7), IntLiteral(2)), IntLiteral(1))
          /\ result = 4
    /\ (Returned /\ input = Text(<<<<"7">>, <<"/">>, <<"2">>, <<"/">>, <<"2">>>>)) =>
          /\ ast = Divide(Divide(IntLiteral(7), IntLiteral(2)), IntLiteral(2))
          /\ result = 1

C4_Witness ==
    /\ pc = "done"
    /\ input = Text(<<<<"7">>, <<"-">>, <<"2">>, <<"-">>, <<"1">>, <<"-">>, <<"2">>>>)
    /\ ast = Subtract(Subtract(Subtract(IntLiteral(7), IntLiteral(2)), IntLiteral(1)),
                      IntLiteral(2))
    /\ result = 2

\* toks begins with k pairs "identifier ="
ChainPairs(toks, k) ==
    /\ 2 * k < Len(toks)
    /\ \A j \in 1..k : toks[2 * j - 1].type = "Identifier" /\ toks[2 * j] = Operator("=")
ChainRest(toks, k) == SubSeq(toks, 2 * k + 1, Len(toks))

\* Assign(xj, Assign(x(j+1), ... Assign(xk, e)))
RECURSIVE RightNest(_, _, _, _)
RightNest(toks, k, j, e) ==
    IF j > k THEN e
    ELSE Assign(Identifier(toks[2 * j - 1].name), RightNest(toks, k, j + 1, e))

Leaf(t) == IF t.type = "Int" THEN IntLiteral(t.value) ELSE Identifier(t.name)
Ones(k) == [j \in 1..k |-> 1]

\* C9: "x1 = x2 = ... = xn = e" parses to Assign(x1, Assign(x2, ... Assign(xn, e)))
\* for every n, e being parsed as the rest of the input is on its own, and each of
\* the n activations of parse_expression that meet an '=' of the chain runs exactly
\* one iteration of its loop; no activation ever runs more than one.
C9_ChainRightNested ==
    /\ (Returned /\ tokens # <<>>) =>
          \A k \in 1..(Len(tokens) \div 2) :
              /\ (ChainPairs(tokens, k) /\ parse(ChainRest(tokens, k)).fatal = "none") =>
                    /\ ast = RightNest(tokens, k, 1, parse(ChainRest(tokens, k)).node)
                    /\ parse_iters = Ones(k) \o parse(ChainRest(tokens, k)).iters
              /\ (ChainPairs(tokens, k) /\ Len(tokens) = 2 * k + 2
                    /\ tokens[2 * k + 1].type \in {"Int", "Identifier"}) =>
                    /\ ast = RightNest(tokens, k, 1, Leaf(tokens[2 * k + 1]))
                    /\ parse_iters = Ones(k) \o <<0>>
    /\ \A j \in DOMAIN parse_iters : parse_iters[j] \in {0, 1}
    /\ (Returned /\ input = ChainText(<<<<"a">>, <<"b">>>>, <<"c">>)) =>
          ast = Assign(Identifier(<<"a">>), Assign(Identifier(<<"b">>), Identifier(<<"c">>)))

C9_Witness ==
    /\ pc = "done"
    /\ input = ChainText(<<<<"a">>, <<"b">>, <<"a">>>>, <<"1">>)
    /\ ast = Assign(Identifier(<<"a">>),
                    Assign(Identifier(<<"b">>), Assign(Identifier(<<"a">>), IntLiteral(1))))
    /\ parse_iters = <<1, 1, 1, 0>>
    /\ result = 1

\* the first k tokens are a complete expression and token k + 1 cannot continue it
CompleteThenTrailing(toks, k) ==
    /\ k < Len(toks)
    /\ toks[k + 1].type \in {"Int", "Identifier", "OpenParen", "ClosedParen"}
    /\ parse(Append(SubSeq(toks, 1, k), InputEnd)).fatal = "none"
    /\ parse(Append(SubSeq(toks, 1, k), InputEnd)).index = k

ParseFatals == {"UnexpectedToken", "IndexOutOfBounds"}

\* C10: when the tokens are a complete expression followed by tokens that cannot
\* continue it, parse raises nothing and returns the tree of the leading expression,
\* and interpret's outcome is that of the leading expression alone ("1 + 2 3" and
\* "1 + 2 )" are 3).
C10_TrailingIgnored ==
    /\ (Returned /\ tokens # <<>>) =>
          \A k \in 1..(Len(tokens) - 1) :
              CompleteThenTrailing(tokens, k) =>
                  /\ fatal \notin ParseFatals
                  /\ ast = parse(Append(SubSeq(tokens, 1, k), InputEnd)).node
                  /\ fatal = evaluate(ast, overflow_checks).fatal
                  /\ fatal = "none" => result = evaluate(ast, overflow_checks).value
                  /\ environment = evaluate(ast, overflow_checks).environment
    /\ (Returned /\ input \in { <<"1", " ", "+", " ", "2", " ", "3">>,
                                <<"1", " ", "+", " ", "2", " ", ")">> }) =>
          /\ fatal = "none"
          /\ ast = Add(IntLiteral(1), IntLiteral(2))
          /\ result = 3

C10_Witness ==
    /\ pc = "done"
    /\ input = <<"1", " ", "+", " ", "2", " ", ")">>
    /\ tokens = <<IntToken(1), Operator("+"), IntToken(2), ClosedParen, InputEnd>>
    /\ ast = Add(IntLiteral(1), IntLiteral(2))
    /\ result = 3

(***************************************************************************)
(* Properties of the scanner (specification SpecTokenizer)                 *)
(***************************************************************************)
\* a next_token call made with the cursor at or past the end of the input
CallAtEnd ==
    /\ pc = "scanner"
    /\ calls' = calls + 1
    /\ current_index >= Len(input)

\* C8: every next_token call made once the cursor has reached the end of the input
\* returns InputEnd and leaves the cursor where it was, however often it is repeated;
\* the result of tokenize_all holds InputEnd exactly once, as its last element.
C8_InputEndForever ==
    /\ [][CallAtEnd => (token' = InputEnd /\ current_index' = current_index
                          /\ fatal' = "none" /\ pc' = "scanner")]_vars
    /\ [](tokens # <<>> =>
            /\ tokens[Len(tokens)] = InputEnd
            /\ \A i \in 1..(Len(tokens) - 1) : tokens[i] # InputEnd)

C8_Witness ==
    /\ pc = "scanner"
    /\ Len(input) >= 1
    /\ calls >= Len(input) + 2
    /\ current_index = Len(input)
    /\ token = InputEnd
    /\ Len(tokens) >= 2

====
